---- MODULE Spec2Model ----
(***************************************************************************)
(* The notebook full_facebook_ad_project.ipynb as a state machine: one     *)
(* action per code cell, run top to bottom (Run All), a raised exception    *)
(* stopping the run.  The table df is a function from column names to      *)
(* columns; a column is a sequence of values, one per record.               *)
(*                                                                         *)
(* Strings that the code sorts (the categories) are tuples of character    *)
(* codes, so that the sorted order of np.unique is computed, not assumed.   *)
(* Floating-point values are exact rationals extended with nan and +-inf,   *)
(* following the IEEE rules numpy applies (x/0, 0/0, 0*inf, inf-inf);       *)
(* rounding and the sign of zero are not modelled.                          *)
(***************************************************************************)
EXTENDS Integers, Sequences, FiniteSets, TLC

VARIABLES
  csv,        \* the records of facebook_ads.csv, in file order
  mt42,       \* the draws of numpy's generator after seed(42), in order
  run,        \* "first" or "second" run of the notebook on the same file
  pc,         \* the next cell to run, or "done" / "error"
  err,        \* the exception that stopped the run, "" if none
  rng,        \* numpy's global RandomState
  df,         \* the campaign table
  grouped,    \* the group aggregate
  ztest,      \* stat and pval returned by proportions_ztest
  verdict,    \* the line the A/B cell printed
  df_model,   \* the copied model table
  le_dict,    \* fitted LabelEncoder classes_ per feature column
  split,      \* X_train, X_test, y_train, y_test and the rows they came from
  fitted,     \* the samples model.fit trained on and validated on
  evalOut,    \* the AUC line of the evaluation cell
  prev        \* what the first run produced, kept to compare the second with

vars == <<csv, mt42, run, pc, err, rng, df, grouped, ztest, verdict,
          df_model, le_dict, split, fitted, evalOut, prev>>

-----------------------------------------------------------------------------
(* Bounds *)

MaxRows == 3

-----------------------------------------------------------------------------
(* Strings as character codes *)

StrA == <<65>>
StrB == <<66>>
StrF == <<70>>
StrM == <<77>>
Age3034 == <<51, 48, 45, 51, 52>>
Age3539 == <<51, 53, 45, 51, 57>>
Age4044 == <<52, 48, 45, 52, 52>>

RECURSIVE StrLess(_, _)
StrLess(a, b) ==
  IF Len(b) = 0 THEN FALSE
  ELSE IF Len(a) = 0 THEN TRUE
  ELSE IF Head(a) < Head(b) THEN TRUE
  ELSE IF Head(a) > Head(b) THEN FALSE
  ELSE StrLess(Tail(a), Tail(b))

-----------------------------------------------------------------------------
(* Floating-point values: [k |-> "fin", n, d] is n/d in lowest terms with  *)
(* d > 0; [k |-> "inf", n |-> 1 or -1]; [k |-> "nan"].                      *)

Abs(x) == IF x < 0 THEN -x ELSE x
Sign(x) == IF x < 0 THEN -1 ELSE IF x = 0 THEN 0 ELSE 1

RECURSIVE GCD(_, _)
GCD(a, b) == IF b = 0 THEN a ELSE GCD(b, a % b)

NaN == [k |-> "nan", n |-> 0, d |-> 1]
Inf(s) == [k |-> "inf", n |-> s, d |-> 1]
Frac(n, d) ==
  LET g == GCD(Abs(n), Abs(d))
      s == IF d < 0 THEN -1 ELSE 1
  IN [k |-> "fin", n |-> s * (n \div g), d |-> s * (d \div g)]
FNum(i) == [k |-> "fin", n |-> i, d |-> 1]
IsFin(a) == a.k = "fin"
IsNaN(a) == a.k = "nan"
IsInf(a) == a.k = "inf"
FSign(a) == Sign(a.n)

FNeg(a) == [a EXCEPT !.n = -a.n]

FAdd(a, b) ==
  IF IsNaN(a) \/ IsNaN(b) THEN NaN
  ELSE IF IsInf(a) /\ IsInf(b) THEN (IF a.n = b.n THEN a ELSE NaN)
  ELSE IF IsInf(a) THEN a
  ELSE IF IsInf(b) THEN b
  ELSE LET g == GCD(a.d, b.d)
       IN Frac(a.n * (b.d \div g) + b.n * (a.d \div g), a.d * (b.d \div g))

FSub(a, b) == FAdd(a, FNeg(b))

FMul(a, b) ==
  IF IsNaN(a) \/ IsNaN(b) THEN NaN
  ELSE IF IsInf(a) \/ IsInf(b)
       THEN (IF FSign(a) * FSign(b) = 0 THEN NaN ELSE Inf(FSign(a) * FSign(b)))
  ELSE LET g1 == GCD(Abs(a.n), b.d)
           g2 == GCD(Abs(b.n), a.d)
       IN Frac((a.n \div g1) * (b.n \div g2), (a.d \div g2) * (b.d \div g1))

FDiv(a, b) ==
  IF IsNaN(a) \/ IsNaN(b) THEN NaN
  ELSE IF IsInf(b) THEN (IF IsInf(a) THEN NaN ELSE FNum(0))
  ELSE IF b.n = 0 THEN (IF FSign(a) = 0 THEN NaN ELSE Inf(FSign(a)))
  ELSE IF IsInf(a) THEN Inf(FSign(a) * FSign(b))
  ELSE FMul(a, Frac(b.d, b.n))

\* a > p/q for a finite a and p/q >= 0, without forming a.n * q
FGreater(a, p, q) ==
  LET w == a.n \div a.d
      r == a.n - w * a.d
  IN IF w > p \div q THEN TRUE
     ELSE IF w < p \div q THEN FALSE
     ELSE r * q > (p % q) * a.d

-----------------------------------------------------------------------------
(* pandas *)

EmptyFrame == [c \in {} |-> <<>>]

NRows(d) == IF DOMAIN d = {} THEN 0 ELSE Len(d[CHOOSE c \in DOMAIN d : TRUE])

\* pd.read_csv: one column per header field, rows in file order
ReadCsv(file) ==
  [c \in {"Age", "Gender", "Impressions", "Clicks", "Spend"} |->
      [i \in 1..Len(file) |-> file[i][c]]]

\* df[name] = vals : appends the column, or overwrites the one of that name
WithColumn(d, name, vals) ==
  [c \in DOMAIN d \cup {name} |-> IF c = name THEN vals ELSE d[c]]

\* Series / Series on integer columns: elementwise true division
\* faulty variant: numerator and denominator exchanged
DivSeriesSwapped(num, den) ==
  [i \in 1..Len(num) |-> FDiv(FNum(den[i]), FNum(num[i]))]
DivSeries(num, den) ==
  [i \in 1..Len(num) |-> FDiv(FNum(num[i]), FNum(den[i]))]

\* df['CTR'] = df['Clicks'] / df['Impressions']
AddCTR(d) == WithColumn(d, "CTR", DivSeries(d["Clicks"], d["Impressions"]))

RECURSIVE SortSet(_)
SortSet(S) ==
  IF S = {} THEN <<>>
  ELSE LET m == CHOOSE x \in S : \A y \in S : x = y \/ StrLess(x, y)
       IN <<m>> \o SortSet(S \ {m})

RECURSIVE SumWhere(_, _, _, _)
SumWhere(col, keys, k, i) ==
  IF i = 0 THEN 0
  ELSE SumWhere(col, keys, k, i - 1) + (IF keys[i] = k THEN col[i] ELSE 0)

\* df.groupby('ad_variant').agg({'Impressions': 'sum', 'Clicks': 'sum'}):
\* one row per key that occurs, keys sorted
\* faulty variant: a row for A and for B whether or not the key occurs
GroupBySumAll(d) ==
  [j \in 1..2 |->
      [ad_variant |-> <<StrA, StrB>>[j],
       Impressions |-> SumWhere(d["Impressions"], d["ad_variant"], <<StrA, StrB>>[j], NRows(d)),
       Clicks |-> SumWhere(d["Clicks"], d["ad_variant"], <<StrA, StrB>>[j], NRows(d))]]
GroupBySum(d) ==
  LET keys == SortSet({d["ad_variant"][i] : i \in 1..NRows(d)})
  IN [j \in 1..Len(keys) |->
        [ad_variant |-> keys[j],
         Impressions |-> SumWhere(d["Impressions"], d["ad_variant"], keys[j], NRows(d)),
         Clicks |-> SumWhere(d["Clicks"], d["ad_variant"], keys[j], NRows(d))]]

\* grouped['CTR'] = grouped['Clicks'] / grouped['Impressions']
\* faulty variant: Impressions / Clicks
GroupCTRSwapped(g) ==
  [j \in 1..Len(g) |->
      [ad_variant |-> g[j].ad_variant, Impressions |-> g[j].Impressions,
       Clicks |-> g[j].Clicks,
       CTR |-> FDiv(FNum(g[j].Impressions), FNum(g[j].Clicks))]]
GroupCTR(g) ==
  [j \in 1..Len(g) |->
      [ad_variant |-> g[j].ad_variant, Impressions |-> g[j].Impressions,
       Clicks |-> g[j].Clicks,
       CTR |-> FDiv(FNum(g[j].Clicks), FNum(g[j].Impressions))]]

-----------------------------------------------------------------------------
(* numpy.random *)

AbSeed == 42

\* a fresh process: the generator is seeded from the operating system
FreshRng == [seeded |-> FALSE, seed |-> 0, pos |-> 0]

\* np.random.seed(s)
\* faulty variant: the seed call left out
NoSeed(r, s) == r
Seed(r, s) == [seeded |-> TRUE, seed |-> s, pos |-> 0]

\* the next n draws of randint(0, 2): fixed by the seed, anything without one
Draws(r, n) ==
  IF r.seeded /\ r.seed = AbSeed
  THEN {[i \in 1..n |-> mt42[r.pos + i]]}
  ELSE [1..n -> {0, 1}]

\* np.random.choice(options, size=n) given the n index draws
Choice(options, bits) == [i \in 1..Len(bits) |-> options[bits[i] + 1]]

-----------------------------------------------------------------------------
(* statsmodels.stats.proportion.proportions_ztest(count, nobs), k_sample   *)
(* = 2, value = 0, two-sided.  The statistic is kept as its sign and its    *)
(* square, so that no square root is taken.                                 *)

\* 1.959964^2, the square of the two-sided 5% critical value, as CritNum/CritDen
CritNum == 3841459
CritDen == 1000000

PooledVar(count, nobs) ==
  LET p == FDiv(FNum(count[1] + count[2]), FNum(nobs[1] + nobs[2]))
      nobs_fact == FAdd(FDiv(FNum(1), FNum(nobs[1])), FDiv(FNum(1), FNum(nobs[2])))
  IN FMul(FMul(p, FSub(FNum(1), p)), nobs_fact)

\* zstat = diff / sqrt(var_), as [sgn, sq]
ZStat(diff, var) ==
  LET sq == IF IsNaN(diff) \/ IsNaN(var) THEN NaN
            ELSE IF FSign(var) < 0 THEN NaN
            ELSE IF FSign(var) = 0
                 THEN (IF FSign(diff) = 0 THEN NaN ELSE Inf(1))
            ELSE IF IsInf(var)
                 THEN (IF IsInf(diff) THEN NaN ELSE FNum(0))
            ELSE IF IsInf(diff) THEN Inf(1)
            ELSE FDiv(FMul(diff, diff), var)
  IN [sq |-> sq, sgn |-> IF IsNaN(sq) THEN 0 ELSE FSign(diff) * FSign(sq)]

\* pvalue = norm.sf(abs(zstat)) * 2, as its place relative to 0.05:
\* "lt" below it, "ge" at or above it, "nan" not a number
PValue(z) ==
  IF IsNaN(z.sq) THEN "nan"
  ELSE IF IsInf(z.sq) THEN "lt"
  ELSE IF FGreater(z.sq, CritNum, CritDen) THEN "lt"
  ELSE "ge"

\* faulty variant: the difference of proportions is not divided by its
\* pooled standard error
ZTestUnpooled(count, nobs) ==
  LET z == ZStat(FSub(FDiv(FNum(count[1]), FNum(nobs[1])),
                      FDiv(FNum(count[2]), FNum(nobs[2]))),
                 FNum(1))
  IN [stat |-> z, pval |-> PValue(z)]
ZTest(count, nobs) ==
  LET prop1 == FDiv(FNum(count[1]), FNum(nobs[1]))
      prop2 == FDiv(FNum(count[2]), FNum(nobs[2]))
      z == ZStat(FSub(prop1, prop2), PooledVar(count, nobs))
  IN [stat |-> z, pval |-> PValue(z)]

\* if pval < 0.05: ... else: ...   (a comparison with nan is False)
\* faulty variant: the branches exchanged
VerdictFlipped(pval) ==
  IF pval = "lt" THEN "no significant difference" ELSE "significant"
Verdict(pval) ==
  IF pval = "lt" THEN "significant" ELSE "no significant difference"

-----------------------------------------------------------------------------
(* scikit-learn and Keras *)

Features == <<"Gender", "Age", "ad_variant">>

\* (df['Clicks'] > 0).astype(int)
ClickedColumn(d) == [i \in 1..NRows(d) |-> IF d["Clicks"][i] > 0 THEN 1 ELSE 0]

\* df['Clicked'] = (df['Clicks'] > 0).astype(int)
\* faulty variant: the label written over the Clicks column
PrepareTargetInPlace(d) == WithColumn(d, "Clicks", ClickedColumn(d))
PrepareTarget(d) == WithColumn(d, "Clicked", ClickedColumn(d))

\* df[features + ['Clicked']].copy()
ModelTable(d) == [c \in {"Gender", "Age", "ad_variant", "Clicked"} |-> d[c]]

\* LabelEncoder.fit: classes_ = np.unique(y), the distinct values, sorted
\* faulty variant: fitted without the last record
ClassesOfHead(col) == SortSet({col[i] : i \in 1..(Len(col) - 1)})
Classes(col) == SortSet({col[i] : i \in 1..Len(col)})

\* LabelEncoder.transform of one value: its index in classes_, from 0;
\* -1 stands for the ValueError raised on a value that is not in classes_
\* faulty variant: indices counted from the end
TransformReversed(classes, v) ==
  IF \E j \in 1..Len(classes) : classes[j] = v
  THEN Len(classes) - (CHOOSE j \in 1..Len(classes) : classes[j] = v)
  ELSE -1
Transform(classes, v) ==
  IF \E j \in 1..Len(classes) : classes[j] = v
  THEN (CHOOSE j \in 1..Len(classes) : classes[j] = v) - 1
  ELSE -1

\* LabelEncoder.inverse_transform of one code
InverseTransform(classes, code) == classes[code + 1]

\* train_test_split: n_test = ceil(test_size * n), n_train = n - n_test
NTest(n) == (n + 4) \div 5

Perms(n) == {p \in [1..n -> 1..n] : \A i, j \in 1..n : p[i] = p[j] => i = j}

\* ind_test = permutation[:n_test]; ind_train = permutation[n_test:n_test + n_train]
TestIndices(perm, n_test) == SubSeq(perm, 1, n_test)
\* faulty variant: the training rows taken from the start of the permutation
TrainIndicesFromStart(perm, n_test) == SubSeq(perm, 1, Len(perm) - n_test)
TrainIndices(perm, n_test) == SubSeq(perm, n_test + 1, Len(perm))

Take(arr, idx) == [i \in 1..Len(idx) |-> arr[idx[i]]]

\* Keras validation_split=0.2: split_at = floor(n * (1 - 0.2)); the samples
\* before split_at are trained on, the rest are the validation samples
SplitAt(n) == (4 * n) \div 5

-----------------------------------------------------------------------------
(* The input *)

Records ==
  { [Age |-> Age3539, Gender |-> StrM, Impressions |-> 4, Clicks |-> 4, Spend |-> 7],
    [Age |-> Age3034, Gender |-> StrF, Impressions |-> 2, Clicks |-> 1, Spend |-> 2],
    [Age |-> Age3034, Gender |-> StrM, Impressions |-> 0, Clicks |-> 0, Spend |-> 0],
    [Age |-> Age4044, Gender |-> StrF, Impressions |-> 0, Clicks |-> 1, Spend |-> 1] }

NoZTest == [stat |-> [sq |-> NaN, sgn |-> 0], pval |-> "none"]
NoSplit == [train_idx |-> <<>>, test_idx |-> <<>>, X_train |-> <<>>,
            X_test |-> <<>>, y_train |-> <<>>, y_test |-> <<>>]
NoFit == [fit_idx |-> <<>>, val_idx |-> <<>>]
NoEval == [auc |-> ""]
NoPrev == [ad_variant |-> <<>>, grouped |-> <<>>, verdict |-> ""]

\* the state of a process that has imported the libraries and run no cell
FreshKernel ==
  /\ pc = "load"
  /\ err = ""
  /\ rng = FreshRng
  /\ df = EmptyFrame
  /\ grouped = <<>>
  /\ ztest = NoZTest
  /\ verdict = ""
  /\ df_model = EmptyFrame
  /\ le_dict = EmptyFrame
  /\ split = NoSplit
  /\ fitted = NoFit
  /\ evalOut = NoEval

Init ==
  /\ \E n \in 1..MaxRows :
       /\ csv \in [1..n -> Records]
       /\ mt42 \in [1..n -> {0, 1}]
  /\ run = "first"
  /\ prev = NoPrev
  /\ FreshKernel

-----------------------------------------------------------------------------
(* The cells *)

\* df = pd.read_csv("facebook_ads.csv")
Load ==
  /\ pc = "load"
  /\ df' = ReadCsv(csv)
  /\ pc' = "eda"
  /\ UNCHANGED <<csv, mt42, run, err, rng, grouped, ztest, verdict, df_model,
                 le_dict, split, fitted, evalOut, prev>>

\* the CTR column; the plots read the table and write nothing
Eda ==
  /\ pc = "eda"
  /\ df' = AddCTR(df)
  /\ pc' = "abtest"
  /\ UNCHANGED <<csv, mt42, run, err, rng, grouped, ztest, verdict, df_model,
                 le_dict, split, fitted, evalOut, prev>>

\* seed, variant assignment, aggregation
AbTest ==
  /\ pc = "abtest"
  /\ LET r == Seed(rng, AbSeed)
         n == NRows(df)
     IN \E bits \in Draws(r, n) :
          LET d2 == WithColumn(df, "ad_variant", Choice(<<StrA, StrB>>, bits))
          IN /\ df' = d2
             /\ grouped' = GroupCTR(GroupBySum(d2))
             /\ rng' = [r EXCEPT !.pos = r.pos + n]
  /\ pc' = "ztest"
  /\ UNCHANGED <<csv, mt42, run, err, ztest, verdict, df_model,
                 le_dict, split, fitted, evalOut, prev>>

\* proportions_ztest and the verdict; with one sample it raises ValueError
\* ('value must be provided for a 1-sample test')
ZTestCell ==
  /\ pc = "ztest"
  /\ IF Len(grouped) = 2
     THEN LET clicks == [j \in 1..2 |-> grouped[j].Clicks]
              impressions == [j \in 1..2 |-> grouped[j].Impressions]
              res == ZTest(clicks, impressions)
          IN /\ ztest' = res
             /\ verdict' = Verdict(res.pval)
             /\ pc' = "target"
             /\ err' = err
     ELSE /\ pc' = "error"
          /\ err' = IF Len(grouped) = 1 THEN "ValueError" ELSE "NotImplementedError"
          /\ UNCHANGED <<ztest, verdict>>
  /\ UNCHANGED <<csv, mt42, run, rng, df, grouped, df_model,
                 le_dict, split, fitted, evalOut, prev>>

Target ==
  /\ pc = "target"
  /\ df' = PrepareTarget(df)
  /\ pc' = "encode"
  /\ UNCHANGED <<csv, mt42, run, err, rng, grouped, ztest, verdict, df_model,
                 le_dict, split, fitted, evalOut, prev>>

\* the copy and the three fit_transform calls
Encode ==
  /\ pc = "encode"
  /\ LET m0 == ModelTable(df)
         cls == [c \in {Features[k] : k \in 1..Len(Features)} |-> Classes(m0[c])]
         m1 == [c \in DOMAIN m0 |->
                  IF c \in DOMAIN cls
                  THEN [i \in 1..Len(m0[c]) |-> Transform(cls[c], m0[c][i])]
                  ELSE m0[c]]
     IN IF \E c \in DOMAIN cls : \E i \in 1..Len(m1[c]) : m1[c][i] = -1
        THEN /\ pc' = "error"
             /\ err' = "ValueError: unseen labels"
             /\ UNCHANGED <<df_model, le_dict>>
        ELSE /\ df_model' = m1
             /\ le_dict' = cls
             /\ pc' = "split"
             /\ err' = err
  /\ UNCHANGED <<csv, mt42, run, rng, df, grouped, ztest, verdict,
                 split, fitted, evalOut, prev>>

\* train_test_split(X, y, test_size=0.2, random_state=42); the permutation
\* is a fixed function of the seed and n, any permutation here
Split ==
  /\ pc = "split"
  /\ LET n == NRows(df_model)
         X == [i \in 1..n |-> [k \in 1..Len(Features) |-> df_model[Features[k]][i]]]
         y == df_model["Clicked"]
     IN IF n - NTest(n) = 0
        THEN /\ pc' = "error"
             /\ err' = "ValueError"
             /\ split' = split
        ELSE \E perm \in Perms(n) :
               LET tr == TrainIndices(perm, NTest(n))
                   te == TestIndices(perm, NTest(n))
               IN /\ split' = [train_idx |-> tr, test_idx |-> te,
                               X_train |-> Take(X, tr), X_test |-> Take(X, te),
                               y_train |-> Take(y, tr), y_test |-> Take(y, te)]
                  /\ pc' = "fit"
                  /\ err' = err
  /\ UNCHANGED <<csv, mt42, run, rng, df, grouped, ztest, verdict, df_model,
                 le_dict, fitted, evalOut, prev>>

\* model.fit(X_train, y_train, ..., validation_split=0.2)
Fit ==
  /\ pc = "fit"
  /\ LET n == Len(split.X_train)
     IN IF SplitAt(n) = 0 \/ SplitAt(n) = n
        THEN /\ pc' = "error"
             /\ err' = "ValueError"
             /\ fitted' = fitted
        ELSE /\ fitted' = [fit_idx |-> SubSeq(split.train_idx, 1, SplitAt(n)),
                           val_idx |-> SubSeq(split.train_idx, SplitAt(n) + 1, n)]
             /\ pc' = "evaluate"
             /\ err' = err
  /\ UNCHANGED <<csv, mt42, run, rng, df, grouped, ztest, verdict, df_model,
                 le_dict, split, evalOut, prev>>

OneClass(y) == \A i, j \in 1..Len(y) : y[i] = y[j]

\* the report and the AUC on X_test, y_test.  The trained weights and the
\* predicted probabilities are not modelled.  With one class in y_test
\* roc_auc_score raises ValueError or, in later releases, returns nan
Evaluate ==
  /\ pc = "evaluate"
  /\ IF OneClass(split.y_test)
     THEN \/ /\ evalOut' = [auc |-> ""]
             /\ pc' = "error"
             /\ err' = "ValueError"
          \/ /\ evalOut' = [auc |-> "nan"]
             /\ pc' = "done"
             /\ err' = err
     ELSE /\ evalOut' = [auc |-> "defined"]
          /\ pc' = "done"
          /\ err' = err
  /\ UNCHANGED <<csv, mt42, run, rng, df, grouped, ztest, verdict, df_model,
                 le_dict, split, fitted, prev>>

\* the notebook is run again in a fresh process on the same file
Restart ==
  /\ pc \in {"done", "error"}
  /\ run = "first"
  /\ run' = "second"
  /\ prev' = [ad_variant |-> IF "ad_variant" \in DOMAIN df THEN df["ad_variant"] ELSE <<>>,
              grouped |-> grouped, verdict |-> verdict]
  /\ pc' = "load"
  /\ err' = ""
  /\ rng' = FreshRng
  /\ df' = EmptyFrame
  /\ grouped' = <<>>
  /\ ztest' = NoZTest
  /\ verdict' = ""
  /\ df_model' = EmptyFrame
  /\ le_dict' = EmptyFrame
  /\ split' = NoSplit
  /\ fitted' = NoFit
  /\ evalOut' = NoEval
  /\ UNCHANGED <<csv, mt42>>

Next ==
  \/ Load
  \/ Eda
  \/ AbTest
  \/ ZTestCell
  \/ Target
  \/ Encode
  \/ Split
  \/ Fit
  \/ Evaluate
  \/ Restart

Spec == Init /\ [][Next]_vars

-----------------------------------------------------------------------------
(* The end-to-end scenario of the A/B test: 1000 records of 100 impressions, *)
(* 500 assigned to A with 10 clicks each and 500 assigned to B with 15      *)
(* clicks each, in any order.  The table is too long to hold as a column,   *)
(* so the aggregation of lines 101-105 is taken one record at a time.       *)

Scenario == [rows |-> 500, impressions |-> 100,
             clicks |-> [j \in 1..2 |-> <<10, 15>>[j]]]

\* groupby-sum after one more record of variant j
AddToGroup(g, j, impressions, clicks) ==
  [g EXCEPT ![j].Impressions = @ + impressions, ![j].Clicks = @ + clicks]

InitScenario ==
  /\ csv = <<>>
  /\ mt42 = <<>>
  /\ run = "first"
  /\ prev = NoPrev
  /\ pc = "scan"
  /\ err = ""
  /\ rng = Seed(FreshRng, AbSeed)
  /\ df = EmptyFrame
  /\ grouped = GroupCTR([j \in 1..2 |->
                 [ad_variant |-> <<StrA, StrB>>[j], Impressions |-> 0, Clicks |-> 0]])
  /\ ztest = NoZTest
  /\ verdict = ""
  /\ df_model = EmptyFrame
  /\ le_dict = EmptyFrame
  /\ split = NoSplit
  /\ fitted = NoFit
  /\ evalOut = NoEval

ScanRow ==
  /\ pc = "scan"
  /\ \E j \in 1..2 :
       /\ grouped[j].Impressions < Scenario.rows * Scenario.impressions
       /\ grouped' = GroupCTR(AddToGroup(grouped, j, Scenario.impressions,
                                         Scenario.clicks[j]))
  /\ UNCHANGED <<csv, mt42, run, pc, err, rng, df, ztest, verdict, df_model,
                 le_dict, split, fitted, evalOut, prev>>

ScanZTest ==
  /\ pc = "scan"
  /\ \A j \in 1..2 : grouped[j].Impressions = Scenario.rows * Scenario.impressions
  /\ LET clicks == [j \in 1..2 |-> grouped[j].Clicks]
         impressions == [j \in 1..2 |-> grouped[j].Impressions]
         res == ZTest(clicks, impressions)
     IN /\ ztest' = res
        /\ verdict' = Verdict(res.pval)
  /\ pc' = "done"
  /\ UNCHANGED <<csv, mt42, run, err, rng, df, grouped, df_model,
                 le_dict, split, fitted, evalOut, prev>>

NextScenario ==
  \/ ScanRow
  \/ ScanZTest

SpecScenario == InitScenario /\ [][NextScenario]_vars

-----------------------------------------------------------------------------
(* Properties *)

RECURSIVE SetSum(_, _)
SetSum(col, S) ==
  IF S = {} THEN 0
  ELSE LET i == CHOOSE x \in S : TRUE IN col[i] + SetSum(col, S \ {i})

Range(f) == {f[i] : i \in DOMAIN f}

HasColumn(d, c) == c \in DOMAIN d

\* the z-test has returned
ZTestDone == ztest.pval # "none"

\* every record of the file has 0 <= Clicks <= Impressions
ValidInput ==
  \A i \in 1..Len(csv) : 0 <= csv[i].Clicks /\ csv[i].Clicks <= csv[i].Impressions

\* a/b with b > 0 lies in [0, 1] and v is that ratio
IsRatio(v, a, b) == IsFin(v) /\ v.n * b = a * v.d
InUnit(v) == IsFin(v) /\ 0 <= v.n /\ v.n <= v.d

SameCTR == grouped[1].Clicks * grouped[2].Impressions
             = grouped[2].Clicks * grouped[1].Impressions

PooledClicks == grouped[1].Clicks + grouped[2].Clicks
PooledImpressions == grouped[1].Impressions + grouped[2].Impressions

\* C1, as stated: once the z-test has returned for two groups with positive
\* impression counts and identical CTR, the p-value is >= 0.05 and the
\* verdict is 'No significant difference'.
C1_Original ==
  (ZTestDone /\ grouped[1].Impressions > 0 /\ grouped[2].Impressions > 0 /\ SameCTR)
    => /\ ztest.pval = "ge"
       /\ verdict = "no significant difference"

\* C1, amended: for two groups with positive impression counts and identical
\* CTR the verdict is 'No significant difference' and exactly one verdict is
\* reported; the p-value is >= 0.05 (the statistic is 0) when the pooled
\* proportion lies strictly between 0 and 1, and is nan otherwise.
C1_IdenticalCtrNotSignificant ==
  /\ ZTestDone => verdict \in {"significant", "no significant difference"}
  /\ ~ZTestDone => verdict = ""
  /\ (ZTestDone /\ grouped[1].Impressions > 0 /\ grouped[2].Impressions > 0 /\ SameCTR)
       => /\ verdict = "no significant difference"
          /\ (0 < PooledClicks /\ PooledClicks < PooledImpressions)
               => (ztest.pval = "ge" /\ ztest.stat.sq = FNum(0))
          /\ ~(0 < PooledClicks /\ PooledClicks < PooledImpressions)
               => ztest.pval = "nan"

C1_Witness ==
  /\ ZTestDone
  /\ grouped[1].Impressions > 0
  /\ grouped[2].Impressions > grouped[1].Impressions
  /\ SameCTR
  /\ 0 < PooledClicks /\ PooledClicks < PooledImpressions
  /\ verdict = "no significant difference"

\* C2: in the scenario the aggregates are 50000 impressions per group, 5000
\* clicks for A and 7500 for B, the squared z-statistic exceeds 1.96^2 (it is
\* 4000/7), the p-value is below 0.05 and the verdict is significant.
C2_ScenarioSignificant ==
  pc = "done" =>
    /\ grouped[1].ad_variant = StrA /\ grouped[2].ad_variant = StrB
    /\ grouped[1].Impressions = 50000 /\ grouped[2].Impressions = 50000
    /\ grouped[1].Clicks = 5000 /\ grouped[2].Clicks = 7500
    /\ grouped[1].CTR = Frac(1, 10) /\ grouped[2].CTR = Frac(3, 20)
    /\ ztest.stat.sq = Frac(4000, 7)
    /\ ztest.stat.sgn = -1
    /\ ztest.pval = "lt"
    /\ verdict = "significant"

C2_Witness ==
  /\ pc = "done"
  /\ grouped[1].Clicks = 5000 /\ grouped[2].Clicks = 7500
  /\ verdict = "significant"

\* C3, as stated: for valid input every row of the group aggregate has
\* Clicks <= Impressions and a CTR in [0, 1].
C3_Original ==
  ValidInput =>
    \A j \in 1..Len(grouped) :
      /\ grouped[j].Clicks <= grouped[j].Impressions
      /\ InUnit(grouped[j].CTR)

\* C3, amended: for valid input every row of the group aggregate has
\* Clicks <= Impressions; its CTR is Clicks/Impressions and lies in [0, 1]
\* when the group's summed Impressions are positive, and is nan when they
\* are zero.
C3_GroupClicksAtMostImpressions ==
  ValidInput =>
    \A j \in 1..Len(grouped) :
      /\ grouped[j].Clicks <= grouped[j].Impressions
      /\ grouped[j].Impressions > 0
           => /\ InUnit(grouped[j].CTR)
              /\ IsRatio(grouped[j].CTR, grouped[j].Clicks, grouped[j].Impressions)
      /\ grouped[j].Impressions = 0 => IsNaN(grouped[j].CTR)

C3_Witness ==
  /\ ValidInput
  /\ Len(grouped) = 2
  /\ grouped[1].Impressions = 0
  /\ grouped[2].Clicks > 0
  /\ grouped[2].Clicks < grouped[2].Impressions

AssignedTo(v) == {i \in 1..NRows(df) : df["ad_variant"][i] = v}

\* the row of the aggregate is the sums and the CTR of the records assigned to it
RowAggregates(row) ==
  /\ row.Impressions = SetSum(df["Impressions"], AssignedTo(row.ad_variant))
  /\ row.Clicks = SetSum(df["Clicks"], AssignedTo(row.ad_variant))
  /\ row.CTR = FDiv(FNum(row.Clicks), FNum(row.Impressions))

\* C4, as stated: after the aggregation the group aggregate has exactly two
\* rows, A then B, each with the sums and CTR of its records, and the z-test
\* receives two counts (it returns a result).
C4_Original ==
  HasColumn(df, "ad_variant") =>
    /\ Len(grouped) = 2
    /\ grouped[1].ad_variant = StrA /\ grouped[2].ad_variant = StrB
    /\ \A j \in 1..Len(grouped) : RowAggregates(grouped[j])
    /\ pc \notin {"abtest", "ztest"} => ZTestDone

\* C4, amended: after the aggregation the group aggregate has one row for
\* each variant that at least one record was assigned to, in the order A, B,
\* each with the sums and CTR of the records assigned to it; it has two rows
\* exactly when both variants were assigned, and otherwise the z-test
\* receives one count and raises ValueError.
C4_OneRowPerAssignedVariant ==
  HasColumn(df, "ad_variant") =>
    /\ Range(df["ad_variant"]) \subseteq {StrA, StrB}
    /\ {grouped[j].ad_variant : j \in 1..Len(grouped)} = Range(df["ad_variant"])
    /\ Len(grouped) = Cardinality(Range(df["ad_variant"]))
    /\ Len(grouped) = 2 => (grouped[1].ad_variant = StrA /\ grouped[2].ad_variant = StrB)
    /\ \A j \in 1..Len(grouped) : RowAggregates(grouped[j])
    /\ (pc # "ztest" /\ Len(grouped) = 2) => ZTestDone
    /\ (pc # "ztest" /\ Len(grouped) # 2)
         => (~ZTestDone /\ pc = "error" /\ err = "ValueError")

C4_Witness ==
  /\ HasColumn(df, "ad_variant")
  /\ Len(grouped) = 2
  /\ grouped[1].Clicks > 0 /\ grouped[2].Clicks > 0
  /\ Cardinality(AssignedTo(StrB)) = 2
  /\ pc = "target"

\* C5: the CTR column holds Clicks/Impressions for every record with
\* Impressions > 0 and nan or inf for every record with Impressions = 0; no
\* record is dropped or changed, and the run goes on to the A/B cell: an
\* error state is only reached from a later cell.
C5_RecordCtr ==
  /\ pc \notin {"load", "eda"} => HasColumn(df, "CTR")
  /\ pc = "error" => HasColumn(df, "ad_variant")
  /\ HasColumn(df, "CTR") =>
       /\ Len(df["CTR"]) = Len(csv)
       /\ \A i \in 1..Len(csv) :
            /\ df["Impressions"][i] = csv[i].Impressions
            /\ df["Clicks"][i] = csv[i].Clicks
            /\ csv[i].Impressions > 0
                 => IsRatio(df["CTR"][i], csv[i].Clicks, csv[i].Impressions)
            /\ csv[i].Impressions = 0
                 => (IsNaN(df["CTR"][i]) \/ IsInf(df["CTR"][i]))

C5_Witness ==
  /\ pc = "ztest"
  /\ \E i, j, k \in 1..Len(csv) :
       /\ csv[i].Impressions = 0 /\ IsNaN(df["CTR"][i])
       /\ csv[j].Impressions = 0 /\ IsInf(df["CTR"][j])
       /\ csv[k].Impressions > 0 /\ df["CTR"][k] = Frac(1, 2)

\* C6: in a second run on the same file the variant labels, the group
\* aggregate and the verdict are those of the first run.
C6_SeededAssignmentRepeats ==
  run = "second" =>
    /\ HasColumn(df, "ad_variant")
         => (df["ad_variant"] = prev.ad_variant /\ grouped = prev.grouped)
    /\ pc \notin {"load", "eda", "abtest", "ztest"} => verdict = prev.verdict

C6_Witness ==
  /\ run = "second"
  /\ pc = "target"
  /\ Range(df["ad_variant"]) = {StrA, StrB}
  /\ verdict = "significant"
  /\ prev.verdict = "significant"

FeatureSet == {Features[k] : k \in 1..Len(Features)}

\* C7: once the encoders are fitted, each column's classes are its distinct
\* categories in strictly increasing order, every code is the 0-based index
\* of the record's category, decoding the code gives the category back, and
\* distinct categories have distinct codes.
C7_EncoderRoundTrip ==
  le_dict # EmptyFrame =>
    \A c \in FeatureSet :
      LET classes == le_dict[c] IN
      /\ Range(classes) = Range(df[c])
      /\ \A j \in 1..(Len(classes) - 1) : StrLess(classes[j], classes[j + 1])
      /\ \A i \in 1..NRows(df) :
           /\ df_model[c][i] \in 0..(Len(classes) - 1)
           /\ InverseTransform(classes, df_model[c][i]) = df[c][i]
      /\ \A i, j \in 1..NRows(df) :
           (df_model[c][i] = df_model[c][j]) <=> (df[c][i] = df[c][j])

C7_Witness ==
  /\ le_dict # EmptyFrame
  /\ Len(le_dict["Gender"]) = 2
  /\ Len(le_dict["Age"]) = 3
  /\ df["Gender"][1] = StrM
  /\ df_model["Gender"][1] = 1
  /\ Len(le_dict["ad_variant"]) = 2

\* the least k with 5 * k >= n
CeilFifth(n) == CHOOSE k \in 0..n : 5 * k >= n /\ (k = 0 \/ 5 * (k - 1) < n)

\* C8: after the split, the evaluation rows are ceil(0.2 n) rows, the
\* training rows are the others, no row is in both or twice, every feature
\* row is paired with its own label, and the rows the model is fitted and
\* validated on are training rows, none of them an evaluation row.
C8_SplitPartitions ==
  /\ split # NoSplit =>
       /\ Len(split.test_idx) = CeilFifth(Len(csv))
       /\ Len(split.train_idx) + Len(split.test_idx) = Len(csv)
       /\ Range(split.train_idx) \cup Range(split.test_idx) = 1..Len(csv)
       /\ Range(split.train_idx) \cap Range(split.test_idx) = {}
       /\ \A i \in 1..Len(split.train_idx) :
            /\ split.X_train[i] =
                 [k \in 1..Len(Features) |-> df_model[Features[k]][split.train_idx[i]]]
            /\ split.y_train[i] = df["Clicked"][split.train_idx[i]]
       /\ \A i \in 1..Len(split.test_idx) :
            /\ split.X_test[i] =
                 [k \in 1..Len(Features) |-> df_model[Features[k]][split.test_idx[i]]]
            /\ split.y_test[i] = df["Clicked"][split.test_idx[i]]
  /\ fitted # NoFit =>
       /\ split # NoSplit
       /\ Range(fitted.fit_idx) \cup Range(fitted.val_idx) = Range(split.train_idx)
       /\ Range(fitted.fit_idx) \cap Range(split.test_idx) = {}
       /\ Range(fitted.val_idx) \cap Range(split.test_idx) = {}

C8_Witness ==
  /\ pc = "evaluate"
  /\ Len(split.test_idx) = 1
  /\ split.test_idx[1] = 2
  /\ Len(fitted.fit_idx) >= 1
  /\ Len(fitted.val_idx) = 1

OriginalColumns == {"Age", "Gender", "Impressions", "Clicks", "Spend"}
DerivedColumns == {"CTR", "ad_variant", "Clicked"}

\* C9: once loaded, the table's columns are the five original ones plus
\* some of CTR, ad_variant and Clicked; the original columns hold the file's
\* values, row for row; and after encoding the table's Gender, Age and
\* ad_variant are still categories while the model table holds the codes.
C9_TableOnlyGainsColumns ==
  df # EmptyFrame =>
    /\ OriginalColumns \subseteq DOMAIN df
    /\ DOMAIN df \subseteq OriginalColumns \cup DerivedColumns
    /\ \A c \in OriginalColumns :
         df[c] = [i \in 1..Len(csv) |-> csv[i][c]]
    /\ \A c \in DOMAIN df : Len(df[c]) = Len(csv)
    /\ df_model # EmptyFrame =>
         /\ DOMAIN df_model = FeatureSet \cup {"Clicked"}
         /\ Range(df["ad_variant"]) \subseteq {StrA, StrB}
         /\ \A c \in FeatureSet : \A i \in 1..Len(csv) :
              /\ df_model[c][i] \in 0..Len(csv)
              /\ df[c][i] = le_dict[c][df_model[c][i] + 1]

C9_Witness ==
  /\ pc = "done"
  /\ DOMAIN df = OriginalColumns \cup DerivedColumns
  /\ df_model # EmptyFrame
  /\ \E i \in 1..Len(csv) : csv[i].Clicks = 4 /\ df["Clicked"][i] = 1

\* C10: the encoders are fitted after ad_variant and Clicked are written and
\* before the split; no run stops on an unseen label, and every category of
\* every training and evaluation record is in its column's fitted classes.
C10_NoUnseenCategory ==
  /\ err # "ValueError: unseen labels"
  /\ le_dict # EmptyFrame
       => (HasColumn(df, "ad_variant") /\ HasColumn(df, "Clicked"))
  /\ pc \in {"split", "fit", "evaluate", "done"} => le_dict # EmptyFrame
  /\ split # NoSplit =>
       /\ le_dict # EmptyFrame
       /\ \A c \in FeatureSet :
            \A i \in Range(split.train_idx) \cup Range(split.test_idx) :
              df[c][i] \in Range(le_dict[c])

\* an evaluation record whose gender no training record has
C10_Witness ==
  /\ pc = "done"
  /\ \E i \in Range(split.test_idx) :
       \A j \in Range(split.train_idx) : df["Gender"][i] # df["Gender"][j]

====
